---- MODULE Spec2Model ----
(***************************************************************************)
(* Model of the three batch scripts of the repository:                     *)
(*   csv_merge.py            actuator / twist / IMU merger                 *)
(*   task4/gpsdata.py        NMEA GPS extractor                            *)
(*   task4/reconstructpath.py  path plotter                                *)
(* Each script is a straight-line program; pc holds its position.          *)
(* Times are kept in the integer unit of the log (the scripts scale them   *)
(* by 1e-9, a pure change of unit).  Floating-point results (means,        *)
(* decimal degrees) are exact rationals <<num, den>>.                      *)
(***************************************************************************)
EXTENDS Integers, Sequences, FiniteSets, TLC

VARIABLES
    pc,          \* position of the running script
    err,         \* "none" or the name of the uncaught exception
    bag,         \* the input log(s) of the running script
    u_data, twist_data, imu_temp, imu_data, blk_i,
    df_u, df_twist, df_imu, df_merged,
    files,       \* names of the files written so far
    printed,     \* tags of the messages printed so far
    nmea_log,    \* the /nmea_sentence messages delivered so far
    gps1_data, gps2_data, gps3_data,
    df_gps,      \* what process_gps_data returned to main: None or 3 frames
    conv_in, conv_out,   \* argument and result of a coordinate conversion
    gps_csv,     \* the CSV file given to the plotter
    gps_data,    \* the frame load_gps_data returned, or None
    lat_col, lon_col, path

mergeVars == <<u_data, twist_data, imu_temp, imu_data, blk_i,
               df_u, df_twist, df_imu, df_merged>>
gpsVars == <<nmea_log, gps1_data, gps2_data, gps3_data, df_gps>>

convVars == <<conv_in, conv_out>>
plotVars == <<gps_csv, gps_data, lat_col, lon_col, path>>

vars == <<pc, err, bag, files, printed, mergeVars, gpsVars, convVars, plotVars>>

(* ------------------------------ bounds --------------------------------- *)
MaxLen == 7        \* longest actuator / twist channel
MaxImuLen == 71    \* longest raw inertial channel
MaxSeed == 0       \* input generators 0..MaxSeed

(* --------------------------- program constants ------------------------- *)
BlockSize == 10
WarmUp == 5

(* ------------------------------ helpers -------------------------------- *)
RECURSIVE SumSeq(_)
SumSeq(s) == IF s = <<>> THEN 0 ELSE Head(s) + SumSeq(Tail(s))

Min2(a, b) == IF a <= b THEN a ELSE b

\* s[a:b] of Python for 0 <= a: the elements with 0-based index a..b-1
Slice(s, a, b) == SubSeq(s, a + 1, Min2(b, Len(s)))

\* .iloc[n:].reset_index(drop=True)
ILocFrom(s, n) == Slice(s, n, Len(s))

\* .iloc[:n].reset_index(drop=True)
ILocTo(s, n) == Slice(s, 0, n)

(* --------------------------- input generators -------------------------- *)
\* Contents of the logs: timestamps irregular and increasing, values small
\* signed integers that differ between fields and records.
GenTs(base, i) == base + 10 * i + ((i * i) % 3)
GenVal(seed, i, f) == (((seed + f) * i + f * f + seed) % 7) - 3

UMsg(seed, i) == [ts |-> GenTs(100 + seed, i),
                  data |-> [k \in 1..3 |-> GenVal(seed, i, k)]]
TwistMsg(seed, i) == [ts |-> GenTs(250 + 3 * seed, i),
                      linear_x |-> GenVal(seed, i, 4),
                      linear_y |-> GenVal(seed, i, 5),
                      angular_z |-> GenVal(seed, i, 6)]
ImuMsg(seed, i) == [ts |-> GenTs(7 + 5 * seed, i),
                    acc |-> [k \in 1..3 |-> GenVal(seed + 1, i, k)],
                    gyr |-> [k \in 1..3 |-> GenVal(seed + 2, i, k + 3)]]

MergeTopics == {"/otter/u_actual", "/otter/twist", "/ouster/imu"}

MergeBags ==
    { [topics |-> MergeTopics,
       u |-> [i \in 1..nu |-> UMsg(sd, i)],
       twist |-> [i \in 1..nt |-> TwistMsg(sd, i)],
       imu |-> [i \in 1..ni |-> ImuMsg(sd, i)]] :
         nu \in 0..MaxLen, nt \in 0..MaxLen, ni \in 0..MaxImuLen, sd \in 0..MaxSeed }
    \cup
    { [topics |-> tp,
       u |-> [i \in 1..MaxLen |-> UMsg(0, i)],
       twist |-> [i \in 1..MaxLen |-> TwistMsg(0, i)],
       imu |-> [i \in 1..MaxImuLen |-> ImuMsg(0, i)]] :
         tp \in (SUBSET MergeTopics) \ {MergeTopics} }

\* the variables of a script that is not running
MergeIdle ==
    /\ u_data = <<>> /\ twist_data = <<>> /\ imu_temp = <<>> /\ imu_data = <<>>
    /\ blk_i = 0
    /\ df_u = <<>> /\ df_twist = <<>> /\ df_imu = <<>> /\ df_merged = <<>>

GpsIdle ==
    /\ nmea_log = <<>>
    /\ gps1_data = <<>> /\ gps2_data = <<>> /\ gps3_data = <<>>
    /\ df_gps = [none |-> TRUE, frames |-> <<>>]

NoTable == [none |-> TRUE, columns |-> <<>>, rows |-> <<>>]

ConvIdle ==
    /\ conv_in = [fn |-> "", str |-> <<>>, direction |-> "",
                  wellformed |-> FALSE, degrees |-> 0, tenths |-> 0]
    /\ conv_out = [kind |-> "None", num |-> 0, den |-> 1]

PlotIdle ==
    /\ gps_csv = [readable |-> FALSE, columns |-> <<>>, rows |-> <<>>]
    /\ gps_data = NoTable
    /\ lat_col = <<>> /\ lon_col = <<>> /\ path = <<>>

(* ============================ csv_merge.py ============================= *)
MergeInit ==
    /\ pc = "read_u"
    /\ err = "none"
    /\ bag \in MergeBags
    /\ u_data = <<>> /\ twist_data = <<>> /\ imu_temp = <<>> /\ imu_data = <<>>
    /\ blk_i = 0
    /\ df_u = <<>> /\ df_twist = <<>> /\ df_imu = <<>> /\ df_merged = <<>>
    /\ files = {} /\ printed = {}
    /\ GpsIdle /\ ConvIdle /\ PlotIdle

\* lines 19-23: one row [t, u0, u1] per message, u0 = data[1], u1 = data[2]
URow(msg) == <<msg.ts, msg.data[2], msg.data[3]>>

\* lines 25-29
TwistRow(msg) == <<msg.ts, msg.linear_x, msg.linear_y, msg.angular_z>>

\* lines 36-47
ImuRow(msg) == <<msg.ts, msg.acc[1], msg.acc[2], msg.acc[3],
                 msg.gyr[1], msg.gyr[2], msg.gyr[3]>>

ReadU ==
    /\ pc = "read_u"
    /\ UNCHANGED <<printed, gpsVars, convVars, plotVars>>
    /\ IF "/otter/u_actual" \in bag.topics
         THEN /\ u_data' = [i \in 1..Len(bag.u) |-> URow(bag.u[i])]
              /\ pc' = "read_twist"
              /\ err' = err
         ELSE /\ pc' = "failed" /\ err' = "KeyError" /\ u_data' = u_data
    /\ UNCHANGED <<bag, twist_data, imu_temp, imu_data, blk_i,
                   df_u, df_twist, df_imu, df_merged, files>>

ReadTwist ==
    /\ pc = "read_twist"
    /\ UNCHANGED <<printed, gpsVars, convVars, plotVars>>
    /\ IF "/otter/twist" \in bag.topics
         THEN /\ twist_data' = [i \in 1..Len(bag.twist) |-> TwistRow(bag.twist[i])]
              /\ pc' = "read_imu"
              /\ err' = err
         ELSE /\ pc' = "failed" /\ err' = "KeyError" /\ twist_data' = twist_data
    /\ UNCHANGED <<bag, u_data, imu_temp, imu_data, blk_i,
                   df_u, df_twist, df_imu, df_merged, files>>

ReadImu ==
    /\ pc = "read_imu"
    /\ UNCHANGED <<printed, gpsVars, convVars, plotVars>>
    /\ IF "/ouster/imu" \in bag.topics
         THEN /\ imu_temp' = [i \in 1..Len(bag.imu) |-> ImuRow(bag.imu[i])]
              /\ pc' = "block"
              /\ err' = err
         ELSE /\ pc' = "failed" /\ err' = "KeyError" /\ imu_temp' = imu_temp
    /\ blk_i' = 0
    /\ UNCHANGED <<bag, u_data, twist_data, imu_data,
                   df_u, df_twist, df_imu, df_merged>>
    /\ UNCHANGED files

\* line 55: pd.DataFrame(data).mean().tolist(), the per-column mean, exact
MeanVals(data) ==
    [c \in 1..6 |-> <<SumSeq([r \in 1..Len(data) |-> data[r][c]]), Len(data)>>]

\* lines 51-56 without the test of line 52: a partial block is averaged too
BlockBody_Partial(temp, i, out) ==
    LET block == Slice(temp, i, i + BlockSize)
        data == [b \in 1..Len(block) |-> Tail(block[b])]
    IN  Append(out, <<block[1][1]>> \o MeanVals(data))

\* lines 51-56: the body of one iteration of the loop at index i
BlockBody(temp, i, out) ==
    LET block == Slice(temp, i, i + BlockSize) IN
    IF Len(block) = BlockSize
      THEN LET times == [b \in 1..Len(block) |-> block[b][1]]
               data == [b \in 1..Len(block) |-> Tail(block[b])]
           IN  Append(out, <<times[1]>> \o MeanVals(data))
      ELSE out

\* line 50: for i in range(0, len(imu_temp), 10)
BlockStep ==
    /\ pc = "block"
    /\ UNCHANGED <<printed, gpsVars, convVars, plotVars>>
    /\ IF blk_i < Len(imu_temp)
         THEN /\ imu_data' = BlockBody(imu_temp, blk_i, imu_data)
              /\ blk_i' = blk_i + BlockSize
              /\ pc' = pc
         ELSE /\ pc' = "frames"
              /\ UNCHANGED <<imu_data, blk_i>>
    /\ UNCHANGED <<err, bag, u_data, twist_data, imu_temp,
                   df_u, df_twist, df_imu, df_merged, files>>

\* lines 59-61 discarding one row too few
DropWarmUp_Four(rows) == ILocFrom(rows, WarmUp - 1)

\* lines 59-61 with the discard left out
DropWarmUp_None(rows) == rows

\* lines 59-61: the warm-up discard applied to one frame
DropWarmUp(rows) == ILocFrom(rows, WarmUp)

ToFrames ==
    /\ pc = "frames"
    /\ UNCHANGED <<printed, gpsVars, convVars, plotVars>>
    /\ df_u' = DropWarmUp(u_data)
    /\ df_twist' = DropWarmUp(twist_data)
    /\ df_imu' = DropWarmUp(imu_data)
    /\ pc' = "normalize"
    /\ UNCHANGED <<err, bag, u_data, twist_data, imu_temp, imu_data, blk_i,
                   df_merged, files>>

\* lines 66-71 for one frame: subtract the first row's time from every row
Rebase(df) == [i \in 1..Len(df) |-> <<df[i][1] - df[1][1]>> \o Tail(df[i])]

\* lines 66-75; .iloc[0] of an empty frame raises IndexError
Normalize ==
    /\ pc = "normalize"
    /\ UNCHANGED <<printed, gpsVars, convVars, plotVars>>
    /\ IF df_u = <<>> \/ df_twist = <<>> \/ df_imu = <<>>
         THEN /\ pc' = "failed" /\ err' = "IndexError"
              /\ UNCHANGED <<df_u, df_twist, df_imu>>
         ELSE /\ df_u' = Rebase(df_u)
              /\ df_twist' = Rebase(df_twist)
              /\ df_imu' = Rebase(df_imu)
              /\ pc' = "concat"
              /\ err' = err
    /\ UNCHANGED <<bag, u_data, twist_data, imu_temp, imu_data, blk_i,
                   df_merged, files>>

Max2(a, b) == IF a >= b THEN a ELSE b

\* the cells of row i of a frame of w columns; a row the frame lacks is NaN
Cells(df, i, w) == IF i <= Len(df) THEN df[i] ELSE [k \in 1..w |-> "NaN"]

\* lines 83-87: pd.concat(axis=1) joins on the row index 0..n-1 (outer join);
\* the time column of the twist and inertial frames is left out
ConcatCols(a, b, c) ==
    [i \in 1..Max2(Len(a), Max2(Len(b), Len(c))) |->
        Cells(a, i, 3) \o Tail(Cells(b, i, 4)) \o Tail(Cells(c, i, 7))]

\* line 78, with the mutation that takes the actuator frame's length
MinLen_OnlyU(a, b, c) == Len(a)

\* line 78
MinLen(a, b, c) == Min2(Len(a), Min2(Len(b), Len(c)))

\* lines 78-87
Concat ==
    /\ pc = "concat"
    /\ UNCHANGED <<printed, gpsVars, convVars, plotVars>>
    /\ LET min_len == MinLen(df_u, df_twist, df_imu) IN
         /\ df_u' = ILocTo(df_u, min_len)
         /\ df_twist' = ILocTo(df_twist, min_len)
         /\ df_imu' = ILocTo(df_imu, min_len)
         /\ df_merged' = ConcatCols(ILocTo(df_u, min_len), ILocTo(df_twist, min_len),
                                    ILocTo(df_imu, min_len))
    /\ pc' = "save"
    /\ UNCHANGED <<err, bag, u_data, twist_data, imu_temp, imu_data, blk_i, files>>

\* line 90
Save ==
    /\ pc = "save"
    /\ UNCHANGED <<printed, gpsVars, convVars, plotVars>>
    /\ files' = files \cup {"model_data.csv"}
    /\ pc' = "done"
    /\ UNCHANGED <<err, bag, u_data, twist_data, imu_temp, imu_data, blk_i,
                   df_u, df_twist, df_imu, df_merged>>

MergeNext ==
    \/ ReadU \/ ReadTwist \/ ReadImu \/ BlockStep
    \/ ToFrames \/ Normalize \/ Concat \/ Save

SpecMerge == MergeInit /\ [][MergeNext]_vars

(* ----------------------- properties of the merger ---------------------- *)
\* field c (1..6) of a raw inertial message, in the column order of the output
ImuField(msg, c) == IF c <= 3 THEN msg.acc[c] ELSE msg.gyr[c - 3]

\* sum of field c over the raw inertial records a..b (1-based)
RawSum(a, b, c) == SumSeq([j \in 1..(b - a + 1) |-> ImuField(bag.imu[a + j - 1], c)])

\* the block loop has finished
AfterBlocks ==
    \/ pc \in {"frames", "normalize", "concat", "save", "done"}
    \/ pc = "failed" /\ err = "IndexError"

\* the frames of lines 59-61 have been built
AfterFrames ==
    \/ pc \in {"normalize", "concat", "save", "done"}
    \/ pc = "failed" /\ err = "IndexError"

\* the time normalization of lines 66-71 has succeeded
AfterNormalize == pc \in {"concat", "save", "done"}

\* C1 (as stated): 15 raw inertial records, actuator and twist long enough,
\* give exactly one inertial row, the mean of records 6..15, at the 6th
\* record's re-based time.
C1_Original ==
    (AfterFrames /\ Len(bag.imu) = 15 /\ Len(bag.u) > 5 /\ Len(bag.twist) > 5)
        => /\ Len(df_imu) = 1
           /\ \A c \in 1..6 : df_imu[1][c + 1] = <<RawSum(6, 15, c), 10>>

\* C1 (amended): 15 raw inertial records give one averaged block (records
\* 1..10, stamped with record 1's time) which the warm-up discard removes, so
\* no inertial row remains; 60 raw records give exactly one inertial row,
\* with re-based time 0 and the per-field mean of records 51..60.
C1_BlocksThenDiscard ==
    /\ (AfterFrames /\ Len(bag.imu) = 15)
          => /\ Len(imu_data) = 1
             /\ imu_data[1][1] = bag.imu[1].ts
             /\ \A c \in 1..6 : imu_data[1][c + 1] = <<RawSum(1, 10, c), 10>>
             /\ df_imu = <<>>
    /\ (AfterFrames /\ Len(bag.imu) = 60) => Len(df_imu) = 1
    /\ (AfterNormalize /\ Len(bag.imu) = 60)
          => /\ df_imu[1][1] = 0
             /\ \A c \in 1..6 : df_imu[1][c + 1] = <<RawSum(51, 60, c), 10>>

C1_Witness ==
    /\ AfterFrames /\ Len(bag.imu) = 15 /\ Len(bag.u) > 5 /\ Len(bag.twist) > 5
    /\ Len(imu_data) = 1 /\ df_imu = <<>>

\* C2 (as stated): for every raw length L >= 0 the inertial frame holds at
\* most floor((L-5)/10) rows.
C2_Original ==
    AfterFrames => Len(df_imu) <= (Len(bag.imu) - 5) \div 10

\* C2 (amended): for every raw length L >= 5 the inertial frame holds at most
\* floor((L-5)/10) rows.
C2_RowBound ==
    (AfterFrames /\ Len(bag.imu) >= 5)
        => Len(df_imu) <= (Len(bag.imu) - 5) \div 10

C2_Witness == AfterFrames /\ Len(bag.imu) >= 5 /\ Len(df_imu) >= 1

\* row counts of the three channels after their own truncation
TruncU == Max2(0, Len(bag.u) - 5)
TruncTwist == Max2(0, Len(bag.twist) - 5)
TruncImu == Max2(0, (Len(bag.imu) \div 10) - 5)

C4_BlockAverage ==
    AfterBlocks =>
        LET L == Len(bag.imu) IN
        /\ Len(imu_data) = L \div 10
        /\ L - 10 * Len(imu_data) \in 0..9
        /\ \A k \in 0..(Len(imu_data) - 1) :
             /\ imu_data[k + 1][1] = bag.imu[10 * k + 1].ts
             /\ \A c \in 1..6 :
                  imu_data[k + 1][c + 1] = <<RawSum(10 * k + 1, 10 * k + 10, c), 10>>

C4_Witness ==
    AfterBlocks /\ Len(imu_data) >= 2 /\ Len(bag.imu) % 10 = 9

\* C5: each channel loses its first 5 post-conversion records, is re-based
\* on its own 6th record, and the run completes and writes model_data.csv
\* whenever the three named channels exist.
C5_Claim ==
    /\ AfterNormalize =>
          /\ df_u[1][1] = 0 /\ df_twist[1][1] = 0 /\ df_imu[1][1] = 0
          /\ \A i \in 1..Len(df_u) : df_u[i][1] = u_data[i + 5][1] - u_data[6][1]
          /\ \A i \in 1..Len(df_twist) :
               df_twist[i][1] = twist_data[i + 5][1] - twist_data[6][1]
          /\ \A i \in 1..Len(df_imu) :
               df_imu[i][1] = imu_data[i + 5][1] - imu_data[6][1]
    /\ (bag.topics = MergeTopics) => pc # "failed"

(* ========================== task4/gpsdata.py =========================== *)
(* Text is a sequence of one-character strings.                            *)
MaxLog == 3        \* most sentences in the /nmea_sentence channel

DigitChars == {"0", "1", "2", "3", "4", "5", "6", "7", "8", "9"}
DigitVal(ch) ==
    CASE ch = "0" -> 0 [] ch = "1" -> 1 [] ch = "2" -> 2 [] ch = "3" -> 3
      [] ch = "4" -> 4 [] ch = "5" -> 5 [] ch = "6" -> 6 [] ch = "7" -> 7
      [] ch = "8" -> 8 [] ch = "9" -> 9

AllDigits(s) == \A i \in 1..Len(s) : s[i] \in DigitChars

RECURSIVE DigitsVal(_)
DigitsVal(s) ==
    IF s = <<>> THEN 0
    ELSE 10 * DigitsVal(SubSeq(s, 1, Len(s) - 1)) + DigitVal(s[Len(s)])

RECURSIVE Pow10(_)
Pow10(n) == IF n = 0 THEN 1 ELSE 10 * Pow10(n - 1)

HasSign(s) == s # <<>> /\ s[1] \in {"-", "+"}
Unsigned(s) == IF HasSign(s) THEN Tail(s) ELSE s
SignOf(s) == IF s # <<>> /\ s[1] = "-" THEN -1 ELSE 1

\* int(text): an optionally signed, non-empty run of decimal digits
ParseInt(s) ==
    LET body == Unsigned(s) IN
    IF body # <<>> /\ AllDigits(body)
      THEN [ok |-> TRUE, v |-> SignOf(s) * DigitsVal(body)]
      ELSE [ok |-> FALSE, v |-> 0]

\* float(text) for plain decimal notation: digits, at most one point, at
\* least one digit; the value is the exact rational num / den
ParseFloat(s) ==
    LET body == Unsigned(s)
        dots == {i \in 1..Len(body) : body[i] = "."}
    IN  IF dots = {}
          THEN IF body # <<>> /\ AllDigits(body)
                 THEN [ok |-> TRUE, num |-> SignOf(s) * DigitsVal(body), den |-> 1]
                 ELSE [ok |-> FALSE, num |-> 0, den |-> 1]
          ELSE LET d == CHOOSE i \in dots : TRUE
                   ip == SubSeq(body, 1, d - 1)
                   fp == SubSeq(body, d + 1, Len(body))
               IN  IF /\ Cardinality(dots) = 1
                      /\ AllDigits(ip) /\ AllDigits(fp)
                      /\ Len(ip) + Len(fp) > 0
                     THEN [ok |-> TRUE,
                           num |-> SignOf(s) * (DigitsVal(ip) * Pow10(Len(fp)) + DigitsVal(fp)),
                           den |-> Pow10(Len(fp))]
                     ELSE [ok |-> FALSE, num |-> 0, den |-> 1]

\* Results of the conversions: a rational, None, or a raised ValueError
Rat(n, d) == [kind |-> "value", num |-> n, den |-> d]
None == [kind |-> "None", num |-> 0, den |-> 1]
Raised == [kind |-> "ValueError", num |-> 0, den |-> 1]

\* degrees + minutes/60, negated for the given hemisphere letter; shared
\* arithmetic of lines 84-91 and 101-108 with w the width of the degrees
DegMin(str, direction, w, neg) ==
    LET degrees == ParseInt(Slice(str, 0, w))
        minutes == ParseFloat(Slice(str, w, Len(str)))
    IN  IF ~degrees.ok \/ ~minutes.ok
          THEN Raised
          ELSE LET num == degrees.v * 60 * minutes.den + minutes.num
                   den == 60 * minutes.den
               IN  IF direction = neg THEN Rat(-num, den) ELSE Rat(num, den)

\* lines 76-91 with the hemisphere test of line 88 reading 'N'
convert_latitude_NegN(lat_str, direction) ==
    IF lat_str = <<>> THEN None ELSE DegMin(lat_str, direction, 2, "N")

\* lines 76-91
convert_latitude(lat_str, direction) ==
    IF lat_str = <<>> THEN None ELSE DegMin(lat_str, direction, 2, "S")

\* lines 93-108
convert_longitude(lon_str, direction) ==
    IF lon_str = <<>> THEN None ELSE DegMin(lon_str, direction, 3, "W")

StartsWith(s, prefix) == Len(s) >= Len(prefix) /\ SubSeq(s, 1, Len(prefix)) = prefix

GPGGA == <<"$", "G", "P", "G", "G", "A">>
GNGGA == <<"$", "G", "N", "G", "G", "A">>
GZGGA == <<"$", "G", "Z", "G", "G", "A">>
GPRMC == <<"$", "G", "P", "R", "M", "C">>

\* What pynmea2.parse makes of the rest of a sentence: ok = FALSE when it
\* raises, else the fields the extractor reads.
Lat3630 == <<"3", "6", "3", "0", ".", "0">>
Lon02945 == <<"0", "2", "9", "4", "5", ".", "0">>
Payloads ==
    { [ok |-> TRUE, lat |-> Lat3630, lat_dir |-> "N",
       lon |-> Lon02945, lon_dir |-> "W", altitude |-> 12],
      [ok |-> TRUE, lat |-> <<"0", "7", "1", "5", ".", "5">>, lat_dir |-> "S",
       lon |-> <<"1", "1", "0", "0", "0", ".", "0">>, lon_dir |-> "E", altitude |-> 0],
      [ok |-> TRUE, lat |-> <<>>, lat_dir |-> "",
       lon |-> Lon02945, lon_dir |-> "W", altitude |-> 12],
      [ok |-> TRUE, lat |-> Lat3630, lat_dir |-> "N",
       lon |-> <<>>, lon_dir |-> "", altitude |-> 12],
      [ok |-> TRUE, lat |-> <<"3", "x", "3", "0", ".", "0">>, lat_dir |-> "N",
       lon |-> Lon02945, lon_dir |-> "W", altitude |-> 12],
      [ok |-> FALSE, lat |-> <<>>, lat_dir |-> "",
       lon |-> <<>>, lon_dir |-> "", altitude |-> 0] }

Sentences ==
    { [head |-> h, parsed |-> p] : h \in {GPGGA, GNGGA, GZGGA, GPRMC}, p \in Payloads }

GpsBags == { [topics |-> tp] : tp \in SUBSET {"/nmea_sentence", "/other"} }

GpsInit ==
    /\ pc = "gps_open"
    /\ err = "none"
    /\ bag \in GpsBags
    /\ files = {} /\ printed = {}
    /\ GpsIdle /\ MergeIdle /\ ConvIdle /\ PlotIdle

\* lines 44-48 (and 51-55, 58-62), with 'or' for 'and' in the test of line 45
Branch_Or(k, timestamp, nmea) ==
    LET msg_parsed == nmea.parsed IN
    IF ~msg_parsed.ok THEN [bucket |-> 0, raised |-> TRUE, fix |-> <<>>]
    ELSE IF msg_parsed.lat # <<>> \/ msg_parsed.lon # <<>>
      THEN LET lat == convert_latitude(msg_parsed.lat, msg_parsed.lat_dir)
               lon == convert_longitude(msg_parsed.lon, msg_parsed.lon_dir)
           IN  IF lat = Raised \/ lon = Raised
                 THEN [bucket |-> 0, raised |-> TRUE, fix |-> <<>>]
                 ELSE [bucket |-> k, raised |-> FALSE,
                       fix |-> <<timestamp, lat, lon, msg_parsed.altitude>>]
      ELSE [bucket |-> 0, raised |-> FALSE, fix |-> <<>>]

\* lines 44-48 with the fix appended before its longitude is converted, so
\* that a failing conversion leaves a partial fix behind
Branch_Early(k, timestamp, nmea) ==
    LET msg_parsed == nmea.parsed IN
    IF ~msg_parsed.ok THEN [bucket |-> 0, raised |-> TRUE, fix |-> <<>>]
    ELSE IF msg_parsed.lat # <<>> /\ msg_parsed.lon # <<>>
      THEN LET lat == convert_latitude(msg_parsed.lat, msg_parsed.lat_dir)
               lon == convert_longitude(msg_parsed.lon, msg_parsed.lon_dir)
           IN  IF lat = Raised \/ lon = Raised
                 THEN [bucket |-> k, raised |-> TRUE,
                       fix |-> <<timestamp, None, None, msg_parsed.altitude>>]
                 ELSE [bucket |-> k, raised |-> FALSE,
                       fix |-> <<timestamp, lat, lon, msg_parsed.altitude>>]
      ELSE [bucket |-> 0, raised |-> FALSE, fix |-> <<>>]

\* lines 44-48 (and 51-55, 58-62): the branch of antenna k.  bucket = 0 when
\* nothing is appended; raised = TRUE when the except clause is taken.
Branch(k, timestamp, nmea) ==
    LET msg_parsed == nmea.parsed IN
    IF ~msg_parsed.ok THEN [bucket |-> 0, raised |-> TRUE, fix |-> <<>>]
    ELSE IF msg_parsed.lat # <<>> /\ msg_parsed.lon # <<>>
      THEN LET lat == convert_latitude(msg_parsed.lat, msg_parsed.lat_dir)
               lon == convert_longitude(msg_parsed.lon, msg_parsed.lon_dir)
           IN  IF lat = Raised \/ lon = Raised
                 THEN [bucket |-> 0, raised |-> TRUE, fix |-> <<>>]
                 ELSE [bucket |-> k, raised |-> FALSE,
                       fix |-> <<timestamp, lat, lon, msg_parsed.altitude>>]
      ELSE [bucket |-> 0, raised |-> FALSE, fix |-> <<>>]

\* lines 39-66: the try block for one sentence
ProcessSentence(timestamp, nmea) ==
    IF StartsWith(nmea.head, GPGGA) THEN Branch(1, timestamp, nmea)
    ELSE IF StartsWith(nmea.head, GNGGA) THEN Branch(2, timestamp, nmea)
    ELSE IF StartsWith(nmea.head, GZGGA) THEN Branch(3, timestamp, nmea)
    ELSE [bucket |-> 0, raised |-> FALSE, fix |-> <<>>]

\* lines 26-32
GpsOpen ==
    /\ pc = "gps_open"
    /\ IF "/nmea_sentence" \in bag.topics
         THEN /\ pc' = "gps_loop"
              /\ UNCHANGED <<printed, df_gps>>
         ELSE /\ printed' = printed \cup {"topic_not_found"}
              /\ df_gps' = [none |-> TRUE, frames |-> <<>>]
              /\ pc' = "gps_stats"
    /\ UNCHANGED <<err, bag, files, mergeVars, convVars, plotVars,
                   nmea_log, gps1_data, gps2_data, gps3_data>>

\* lines 35-66: one iteration of the message loop
GpsMessage ==
    /\ pc = "gps_loop"
    /\ Len(nmea_log) < MaxLog
    /\ \E nmea \in Sentences :
         LET ts == GenTs(500, Len(nmea_log) + 1)
             r == ProcessSentence(ts, nmea)
         IN  /\ nmea_log' = Append(nmea_log, [ts |-> ts, sentence |-> nmea])
             /\ gps1_data' = IF r.bucket = 1 THEN Append(gps1_data, r.fix) ELSE gps1_data
             /\ gps2_data' = IF r.bucket = 2 THEN Append(gps2_data, r.fix) ELSE gps2_data
             /\ gps3_data' = IF r.bucket = 3 THEN Append(gps3_data, r.fix) ELSE gps3_data
    /\ UNCHANGED <<pc, err, bag, files, printed, mergeVars, convVars, plotVars, df_gps>>

\* lines 68-74: the channel is exhausted
GpsReturn ==
    /\ pc = "gps_loop"
    /\ df_gps' = [none |-> FALSE, frames |-> <<gps1_data, gps2_data, gps3_data>>]
    /\ pc' = "gps_stats"
    /\ UNCHANGED <<err, bag, files, printed, mergeVars, convVars, plotVars,
                   nmea_log, gps1_data, gps2_data, gps3_data>>

\* lines 143-150
GpsStats ==
    /\ pc = "gps_stats"
    /\ printed' = printed \cup
          { <<"stats", k>> : k \in {j \in 1..3 : ~df_gps.none /\ df_gps.frames[j] # <<>>} }
    /\ pc' = "gps_save"
    /\ UNCHANGED <<err, bag, files, mergeVars, convVars, plotVars, gpsVars>>

\* lines 110-133; None has no attribute 'empty'
GpsSave ==
    /\ pc = "gps_save"
    /\ IF df_gps.none
         THEN /\ pc' = "failed" /\ err' = "AttributeError"
              /\ UNCHANGED <<files, printed>>
         ELSE /\ files' = files \cup { <<"antenna_gps.csv", k>> :
                                         k \in {j \in 1..3 : df_gps.frames[j] # <<>>} }
              /\ printed' = printed
                    \cup { <<"saved", k>> : k \in {j \in 1..3 : df_gps.frames[j] # <<>>} }
                    \cup { <<"no_data", k>> : k \in {j \in 1..3 : df_gps.frames[j] = <<>>} }
              /\ pc' = "done" /\ err' = err
    /\ UNCHANGED <<bag, mergeVars, convVars, plotVars, gpsVars>>

GpsNext == GpsOpen \/ GpsMessage \/ GpsReturn \/ GpsStats \/ GpsSave

SpecGps == GpsInit /\ [][GpsNext]_vars

(* ----------------------- properties of the extractor ------------------- *)
Bucket(k) == IF k = 1 THEN gps1_data ELSE IF k = 2 THEN gps2_data ELSE gps3_data

BucketPrefix(k) == IF k = 1 THEN GPGGA ELSE IF k = 2 THEN GNGGA ELSE GZGGA

\* the sentence is parsed (its prefix is one of the three) and the parse or
\* a coordinate conversion raises
Failing(nmea) ==
    /\ \E k \in 1..3 : StartsWith(nmea.head, BucketPrefix(k))
    /\ \/ ~nmea.parsed.ok
       \/ /\ nmea.parsed.lat # <<>> /\ nmea.parsed.lon # <<>>
          /\ \/ convert_latitude(nmea.parsed.lat, nmea.parsed.lat_dir).kind # "value"
             \/ convert_longitude(nmea.parsed.lon, nmea.parsed.lon_dir).kind # "value"

\* the sentence is one the extractor accepts for antenna k
Accepted(nmea, k) ==
    /\ StartsWith(nmea.head, BucketPrefix(k))
    /\ nmea.parsed.ok
    /\ nmea.parsed.lat # <<>> /\ nmea.parsed.lon # <<>>
    /\ ~Failing(nmea)

\* C6: every fix in a bucket comes from a sentence that had latitude and
\* longitude and the bucket's prefix; a sentence missing either adds nothing
\* to any bucket; each accepted sentence adds exactly one fix to the bucket
\* of its prefix and to no other, and the fixes keep the input order.
C6_BucketsFromCompleteSentences ==
    \A k \in 1..3 :
      /\ \A f \in 1..Len(Bucket(k)) :
           \E i \in 1..Len(nmea_log) :
              /\ nmea_log[i].ts = Bucket(k)[f][1]
              /\ nmea_log[i].sentence.parsed.lat # <<>>
              /\ nmea_log[i].sentence.parsed.lon # <<>>
              /\ StartsWith(nmea_log[i].sentence.head, BucketPrefix(k))
              /\ Bucket(k)[f][2].kind = "value" /\ Bucket(k)[f][3].kind = "value"
      /\ \A f, g \in 1..Len(Bucket(k)) : f < g => Bucket(k)[f][1] < Bucket(k)[g][1]
      /\ \A i \in 1..Len(nmea_log) :
           Cardinality({f \in 1..Len(Bucket(k)) : Bucket(k)[f][1] = nmea_log[i].ts})
             = IF Accepted(nmea_log[i].sentence, k) THEN 1 ELSE 0

C6_Witness ==
    /\ Len(gps1_data) = 1 /\ Len(gps3_data) = 1 /\ gps2_data = <<>>
    /\ \E i \in 1..Len(nmea_log) :
         /\ nmea_log[i].sentence.parsed.ok
         /\ nmea_log[i].sentence.parsed.lat = <<>>
         /\ StartsWith(nmea_log[i].sentence.head, GNGGA)

\* the buckets the extractor builds from a log, sentence by sentence
FixesOf(log, k) ==
    LET sel == SelectSeq(log, LAMBDA m : ProcessSentence(m.ts, m.sentence).bucket = k)
    IN  [i \in 1..Len(sel) |-> ProcessSentence(sel[i].ts, sel[i].sentence).fix]

WithoutFailing(log) == SelectSeq(log, LAMBDA m : ~Failing(m.sentence))

\* C7: a sentence whose parsing or conversion fails changes no bucket and
\* does not stop the run: at every point the buckets are those of the log
\* read so far with the failing sentences removed.
C7_FailuresSkipped ==
    \A k \in 1..3 : Bucket(k) = FixesOf(WithoutFailing(nmea_log), k)

C7_Witness ==
    /\ pc = "gps_stats"
    /\ \E i, j \in 1..Len(nmea_log) :
         /\ i < j
         /\ Failing(nmea_log[i].sentence)
         /\ nmea_log[i].sentence.parsed.ok
         /\ Accepted(nmea_log[j].sentence, 2)
    /\ Len(gps2_data) = 1

GpsFile(k) == <<"antenna_gps.csv", k>>

\* C8: in every run of main, for each bucket on its own, the bucket's file is
\* written exactly when the bucket holds a fix, an empty bucket gives a
\* diagnostic message and no file, and no run ends in an error.
C8_Claim ==
    /\ pc # "failed"
    /\ pc = "done" =>
         \A k \in 1..3 :
            /\ GpsFile(k) \in files <=> Bucket(k) # <<>>
            /\ Bucket(k) = <<>> => <<"no_data", k>> \in printed

(* ------------------ the coordinate conversions on their own ------------ *)
DigitChar(d) ==
    CASE d = 0 -> "0" [] d = 1 -> "1" [] d = 2 -> "2" [] d = 3 -> "3" [] d = 4 -> "4"
      [] d = 5 -> "5" [] d = 6 -> "6" [] d = 7 -> "7" [] d = 8 -> "8" [] d = 9 -> "9"

\* n written with exactly w decimal digits
FmtN(n, w) == [i \in 1..w |-> DigitChar((n \div Pow10(w - i)) % 10)]

\* NMEA DDMM.M / DDDMM.M text for whole degrees and tenths of a minute
FmtDegMin(deg, tenths, w) ==
    FmtN(deg, w) \o FmtN(tenths \div 10, 2) \o <<".">> \o FmtN(tenths % 10, 1)

LatDegs == {0, 7, 36, 89}
LonDegs == {0, 29, 110, 179}
MinTenths == {0, 155, 300, 450, 599}
Directions == {"N", "S", "E", "W", ""}
BadTexts == { <<"3", "x", "3", "0", ".", "0">>, <<"3", "6">>, <<"0", "2", "9">>,
              <<"3", "6", "3", "0", ".", "0", ".", "1">>, <<"3", "6", ".">> }

ConvInputs ==
    { [fn |-> "lat", str |-> FmtDegMin(d, t, 2), direction |-> dir,
       wellformed |-> TRUE, degrees |-> d, tenths |-> t] :
         d \in LatDegs, t \in MinTenths, dir \in Directions }
    \cup
    { [fn |-> "lon", str |-> FmtDegMin(d, t, 3), direction |-> dir,
       wellformed |-> TRUE, degrees |-> d, tenths |-> t] :
         d \in LonDegs, t \in MinTenths, dir \in Directions }
    \cup
    { [fn |-> f, str |-> b, direction |-> "N",
       wellformed |-> FALSE, degrees |-> 0, tenths |-> 0] :
         f \in {"lat", "lon"}, b \in BadTexts \cup {<<>>} }

ConvInit ==
    /\ pc = "conv"
    /\ err = "none"
    /\ bag = [topics |-> {}]
    /\ files = {} /\ printed = {}
    /\ conv_in \in ConvInputs
    /\ conv_out = [kind |-> "None", num |-> 0, den |-> 1]
    /\ MergeIdle /\ GpsIdle /\ PlotIdle

ConvertLatitude ==
    /\ pc = "conv" /\ conv_in.fn = "lat"
    /\ conv_out' = convert_latitude(conv_in.str, conv_in.direction)
    /\ pc' = "conv_done"
    /\ UNCHANGED <<err, bag, files, printed, conv_in, mergeVars, gpsVars, plotVars>>

ConvertLongitude ==
    /\ pc = "conv" /\ conv_in.fn = "lon"
    /\ conv_out' = convert_longitude(conv_in.str, conv_in.direction)
    /\ pc' = "conv_done"
    /\ UNCHANGED <<err, bag, files, printed, conv_in, mergeVars, gpsVars, plotVars>>

ConvNext == ConvertLatitude \/ ConvertLongitude

SpecConv == ConvInit /\ [][ConvNext]_vars

\* the result equals the rational n / d
IsRat(r, n, d) == r.kind = "value" /\ r.num * d = n * r.den

\* C9: for well-formed text the conversions return degrees + minutes/60,
\* negative exactly for S (latitude) or W (longitude) and positive for every
\* other direction; 36 deg 30.0 min N is 36.5, S is -36.5, 029 deg 45.0 min W
\* is -29.75.
C9_DecimalDegrees ==
    (pc = "conv_done" /\ conv_in.wellformed) =>
        LET negate == \/ conv_in.fn = "lat" /\ conv_in.direction = "S"
                      \/ conv_in.fn = "lon" /\ conv_in.direction = "W"
            minutes60 == conv_in.degrees * 600 + conv_in.tenths
        IN  /\ IsRat(conv_out, IF negate THEN -minutes60 ELSE minutes60, 600)
            /\ (conv_in.fn = "lat" /\ conv_in.degrees = 36 /\ conv_in.tenths = 300)
                 => /\ conv_in.str = Lat3630
                    /\ conv_in.direction = "N" => IsRat(conv_out, 365, 10)
                    /\ conv_in.direction = "S" => IsRat(conv_out, -365, 10)
            /\ (conv_in.fn = "lon" /\ conv_in.degrees = 29 /\ conv_in.tenths = 450
                  /\ conv_in.direction = "W")
                 => /\ conv_in.str = Lon02945
                    /\ IsRat(conv_out, -2975, 100)

C9_Witness ==
    /\ pc = "conv_done" /\ conv_in.fn = "lon" /\ conv_in.str = Lon02945
    /\ conv_in.direction = "W" /\ conv_out.num < 0

(* ======================= task4/reconstructpath.py ====================== *)
MaxCols == 3       \* most columns of the CSV
MaxRows == 2       \* most rows of the CSV

UpperChars == <<"A", "B", "C", "D", "E", "F", "G", "H", "I", "J", "K", "L", "M",
                "N", "O", "P", "Q", "R", "S", "T", "U", "V", "W", "X", "Y", "Z">>
LowerChars == <<"a", "b", "c", "d", "e", "f", "g", "h", "i", "j", "k", "l", "m",
                "n", "o", "p", "q", "r", "s", "t", "u", "v", "w", "x", "y", "z">>

\* str.lower()
Lower(s) ==
    [i \in 1..Len(s) |->
        IF \E u \in 1..26 : UpperChars[u] = s[i]
          THEN LowerChars[CHOOSE u \in 1..26 : UpperChars[u] = s[i]]
          ELSE s[i]]

\* sub in s
Contains(s, sub) ==
    \E i \in 0..(Len(s) - Len(sub)) : SubSeq(s, i + 1, i + Len(sub)) = sub

LatTerms == { <<"l", "a", "t">>, <<"l", "a", "t", "i", "t", "u", "d", "e">> }
LonTerms == { <<"l", "o", "n">>, <<"l", "o", "n", "g">>,
              <<"l", "o", "n", "g", "i", "t", "u", "d", "e">> }

N_foo_lat == <<"f", "o", "o", "_", "l", "a", "t">>
N_foo_lon == <<"f", "o", "o", "_", "l", "o", "n">>
N_lat_lon == <<"l", "a", "t", "_", "l", "o", "n">>
N_Lat == <<"L", "a", "t">>
N_LONG == <<"L", "O", "N", "G">>
ColumnNames == { N_foo_lat, N_foo_lon, N_lat_lon, N_Lat, N_LONG,
                 <<"x">>, <<"a">>, <<"b">>, <<"c">> }

\* the cell of row r in the column at position c
Cell(r, c, numeric) == [text |-> ~numeric, v |-> 10 * c + r]

\* CSV files: at least one column (read_csv rejects an empty file), distinct
\* column names (read_csv renames duplicates), each column numeric or text
Csvs ==
    { [readable |-> TRUE,
       columns |-> [c \in 1..n |-> [name |-> nm[c], numeric |-> num[c]]],
       rows |-> [r \in 1..m |-> [c \in 1..n |-> Cell(r, c, num[c])]]] :
         <<n, m, nm, num>> \in
           UNION { { <<k, m, f, g>> : m \in 0..MaxRows,
                       f \in { h \in [1..k -> ColumnNames] :
                                 \A a, b \in 1..k : a # b => h[a] # h[b] },
                       g \in [1..k -> BOOLEAN] } : k \in 1..MaxCols } }
    \cup { [readable |-> FALSE, columns |-> <<>>, rows |-> <<>>] }

PlotInit ==
    /\ pc = "load"
    /\ err = "none"
    /\ bag = [topics |-> {}]
    /\ files = {} /\ printed = {}
    /\ gps_csv \in Csvs
    /\ gps_data = NoTable
    /\ lat_col = <<>> /\ lon_col = <<>> /\ path = <<>>
    /\ MergeIdle /\ GpsIdle /\ ConvIdle

\* lines 6-24 and 99-101
LoadGpsData ==
    /\ pc = "load"
    /\ IF gps_csv.readable
         THEN /\ gps_data' = [none |-> FALSE, columns |-> gps_csv.columns,
                              rows |-> gps_csv.rows]
              /\ printed' = printed \cup {"loaded"}
              /\ pc' = "reconstruct"
         ELSE /\ gps_data' = NoTable
              /\ printed' = printed \cup {"error_loading"}
              /\ pc' = "done"
    /\ UNCHANGED <<err, bag, files, gps_csv, lat_col, lon_col, path,
                   mergeVars, gpsVars, convVars>>

\* lines 40-45 comparing the names as they are, without lower()
RECURSIVE ScanCols_CaseSensitive(_, _, _)
ScanCols_CaseSensitive(cols, i, acc) ==
    IF i > Len(cols) THEN acc
    ELSE LET col == cols[i].name IN
         IF \E t \in LatTerms : Contains(col, t)
           THEN ScanCols_CaseSensitive(cols, i + 1, [acc EXCEPT !.lat = col])
         ELSE IF \E t \in LonTerms : Contains(col, t)
           THEN ScanCols_CaseSensitive(cols, i + 1, [acc EXCEPT !.lon = col])
           ELSE ScanCols_CaseSensitive(cols, i + 1, acc)

\* lines 40-45: the loop over the columns from position i on
RECURSIVE ScanCols(_, _, _)
ScanCols(cols, i, acc) ==
    IF i > Len(cols) THEN acc
    ELSE LET col == cols[i].name
             col_lower == Lower(col)
         IN  IF \E t \in LatTerms : Contains(col_lower, t)
               THEN ScanCols(cols, i + 1, [acc EXCEPT !.lat = col])
             ELSE IF \E t \in LonTerms : Contains(col_lower, t)
               THEN ScanCols(cols, i + 1, [acc EXCEPT !.lon = col])
               ELSE ScanCols(cols, i + 1, acc)

\* line 49: select_dtypes(include=[np.number]).columns
NumericCols(cols) == SelectSeq(cols, LAMBDA c : c.numeric)

\* lines 37-54: the chosen column names, or the ValueError of line 54
PickCols(cols) ==
    LET found == ScanCols(cols, 1, [lat |-> <<>>, lon |-> <<>>])
        numeric_cols == NumericCols(cols)
    IN  IF found.lat = <<>> \/ found.lon = <<>>
          THEN IF Len(numeric_cols) >= 2
                 THEN [raised |-> FALSE, fallback |-> TRUE,
                       lat |-> numeric_cols[1].name, lon |-> numeric_cols[2].name]
                 ELSE [raised |-> TRUE, fallback |-> TRUE, lat |-> <<>>, lon |-> <<>>]
          ELSE [raised |-> FALSE, fallback |-> FALSE, lat |-> found.lat, lon |-> found.lon]

ColIndex(cols, name) == CHOOSE c \in 1..Len(cols) : cols[c].name = name

\* line 57: list(zip(gps_data[lat_col], gps_data[lon_col]))
ZipCols(table, la, lo) ==
    [r \in 1..Len(table.rows) |->
        <<table.rows[r][ColIndex(table.columns, la)],
          table.rows[r][ColIndex(table.columns, lo)]>>]

\* lines 26-58 and 104-105
ReconstructPath ==
    /\ pc = "reconstruct"
    /\ LET pick == PickCols(gps_data.columns) IN
         IF pick.raised
           THEN /\ pc' = "failed" /\ err' = "ValueError"
                /\ UNCHANGED <<lat_col, lon_col, path, printed>>
           ELSE /\ lat_col' = pick.lat /\ lon_col' = pick.lon
                /\ path' = ZipCols(gps_data, pick.lat, pick.lon)
                /\ printed' = printed \cup {"reconstructed"}
                      \cup (IF pick.fallback THEN {"using_columns"} ELSE {})
                /\ pc' = "visualize" /\ err' = err
    /\ UNCHANGED <<bag, files, gps_csv, gps_data, mergeVars, gpsVars, convVars>>

\* lines 60-92
VisualizePath ==
    /\ pc = "visualize"
    /\ IF path = <<>>
         THEN /\ printed' = printed \cup {"no_path_data"}
              /\ files' = files
         ELSE /\ files' = files \cup {"reconstructed_path.png"}
              /\ printed' = printed \cup {"saved_png"}
    /\ pc' = "done"
    /\ UNCHANGED <<err, bag, mergeVars, gpsVars, convVars, plotVars>>

PlotNext == LoadGpsData \/ ReconstructPath \/ VisualizePath

SpecPlot == PlotInit /\ [][PlotNext]_vars

(* ------------------------ properties of the plotter -------------------- *)
IsLatName(name) == \E t \in LatTerms : Contains(Lower(name), t)

\* a longitude name: one with a longitude term that is not a latitude name
IsLonName(name) == ~IsLatName(name) /\ \E t \in LonTerms : Contains(Lower(name), t)

ColNames(cols) == [c \in 1..Len(cols) |-> cols[c].name]

\* positions of the numeric columns, in column order
NumericPos(cols) == {c \in 1..Len(cols) : cols[c].numeric}

====
